---- MODULE Spec2Model ----
(***************************************************************************)
(* Model of the Airflow trigger-and-poll logic of opencve:                 *)
(*   web/cves/management/commands/trigger_sync.py  (Command, "cli")        *)
(*   web/opencve/views.py                          (TriggerSyncView)       *)
(*                                                                         *)
(* One invocation is followed from its start to its end.  Time is counted  *)
(* in whole seconds; only network calls and time.sleep advance the clock,  *)
(* the statements between them take no time.  The Airflow service is the   *)
(* environment: it answers every request with one of the responses below,  *)
(* after a latency of at most the requests timeout.                        *)
(***************************************************************************)
EXTENDS Integers, Sequences, FiniteSets, TLC

(* ----------------------------- bounds ---------------------------------- *)
\* largest --timeout option explored (the option is an int, may be <= 0)
MaxTimeout == 10
\* seconds the start-run POST takes
TriggerLatency == 1

(* ------------------------ program constants ---------------------------- *)
\* requests.get(..., timeout=10)
TransportTimeout == 10
\* time.sleep(2)
PollInterval == 2

(* ------------------------------ values --------------------------------- *)
None == "None"
RunIds == {"manual__1", "manual__2"}
States == {"queued", "running", "success", "failed"}

\* A decoded (or undecodable) response body.  shape "notjson": response.json()
\* raises; "list": a JSON value that is no object; "dict": a JSON object with
\* the keys dag_run_id / state present unless None, `other` telling whether
\* the value is non-empty apart from these two keys.
\* detail / title are the values under these keys (None: key absent), text
\* tells whether response.text is non-empty.
Body(shape, id, st, other) ==
    [shape |-> shape, dag_run_id |-> id, state |-> st, other |-> other,
     detail |-> None, title |-> None, text |-> shape # "None"]
\* the body of an error response
ErrBody(shape, detail, title, text) ==
    [shape |-> shape, dag_run_id |-> None, state |-> None,
     other |-> shape # "notjson", detail |-> detail, title |-> title,
     text |-> text]
NotJson == Body("notjson", None, None, FALSE)
NoBody == Body("None", None, None, FALSE)
ListBodies == {Body("list", None, None, o) : o \in BOOLEAN}
TriggerDicts ==
    {Body("dict", id, st, TRUE) : id \in RunIds, st \in {"queued", "success"}}
    \cup {Body("dict", None, "queued", TRUE), Body("dict", None, None, FALSE)}
ErrBodies ==
    {ErrBody("notjson", None, None, t) : t \in BOOLEAN}
    \cup {ErrBody("list", None, None, TRUE)}
    \cup {ErrBody("dict", d, t, TRUE) :
            d \in {None, "the detail"}, t \in {None, "the title"}}
StateDicts == {Body("dict", None, st, TRUE) : st \in States \cup {None}}

\* A response of the service as requests sees it: err is the exception raised
\* by the transport itself, status the HTTP status otherwise.  The statuses
\* are those the Airflow REST API answers with (a success, a client error, a
\* server error); requests follows redirects itself.
Resp(err, status, body) == [err |-> err, status |-> status, body |-> body]
NoResp == Resp("no response", 0, NoBody)
TransportFailures ==
    {Resp(e, 0, NoBody) : e \in {"ConnectionError", "ReadTimeout"}}
ErrorStatuses == {404, 500}
OkStatuses == {200}
TriggerResponses ==
    TransportFailures
    \cup {Resp("none", s, b) : s \in ErrorStatuses, b \in ErrBodies}
    \cup {Resp("none", s, b) :
            s \in OkStatuses, b \in {NotJson} \cup ListBodies \cup TriggerDicts}
StateResponses ==
    TransportFailures
    \cup {Resp("none", s, NotJson) : s \in ErrorStatuses}
    \cup {Resp("none", s, b) :
            s \in OkStatuses,
            b \in {NotJson, Body("list", None, None, TRUE)} \cup StateDicts}

Latencies == 0 .. TransportTimeout
TriggerLatencies == {TriggerLatency}
Timeouts == (0 - 1) .. MaxTimeout

(* --------------------------- pure functions ---------------------------- *)
\* response.raise_for_status(): HTTPError for a 4xx or 5xx status
raise_for_status(resp) == resp.status >= 400 /\ resp.status < 600

\* the try block of a request: does it end in a RequestException?
\* (transport exception, HTTPError, or the JSONDecodeError of response.json(),
\* which requests derives from RequestException)
RequestException(resp) ==
    \/ resp.err # "none"
    \/ raise_for_status(resp)
    \/ resp.body.shape = "notjson"

\* Python truth value of a decoded body (`not dag_run`)
Truthy(body) ==
    CASE body.shape = "dict" ->
            body.dag_run_id # None \/ body.state # None \/ body.other
      [] body.shape = "list" -> body.other
      [] OTHER -> FALSE

\* Command.trigger_dag: the decoded body, or None
trigger_dag(resp) == IF RequestException(resp) THEN NoBody ELSE resp.body

\* Command.get_dag_run_state: data.get("state"), None on RequestException;
\* "AttributeError" stands for the exception data.get raises on a non-dict
get_dag_run_state(resp) ==
    IF RequestException(resp) THEN None
    ELSE IF resp.body.shape # "dict" THEN "AttributeError"
    ELSE resp.body.state

api_url_fixed(id) == "manual__1"

\* get_dag_run_state: the run identifier put into the URL of the GET
api_url(id) == id

loop_condition_inclusive(t, start, tmo) == t - start <= tmo

\* the while condition of wait_for_completion
loop_condition(t, start, tmo) == t - start < tmo

loop_branch_not_failed(st) ==
    IF st = None THEN "query_error"
    ELSE IF st # "failed" THEN "success"
    ELSE "run_failed"

loop_branch_retry(st) ==
    IF st = None THEN "sleep"
    ELSE IF st = "success" THEN "success"
    ELSE IF st = "failed" THEN "run_failed"
    ELSE "sleep"

loop_branch_failed_goes_on(st) ==
    IF st = None THEN "query_error"
    ELSE IF st = "success" THEN "success"
    ELSE "sleep"

\* the branch taken in the loop body on the queried state
loop_branch(st) ==
    IF st = None THEN "query_error"
    ELSE IF st = "success" THEN "success"
    ELSE IF st = "failed" THEN "run_failed"
    ELSE "sleep"

(* ------------------------------ state ---------------------------------- *)
VARIABLES
    site,         \* "none", "cli" (Command.handle) or "view" (TriggerSyncView.post)
    pc,           \* position of the invocation
    wait,         \* options["wait"]
    timeout,      \* options["timeout"]
    now,          \* the clock, time.time()
    start_time,   \* local of wait_for_completion
    posts,        \* start-run POST requests issued
    gets,         \* state-query GET requests issued
    sleeps,       \* time.sleep(2) calls performed
    triggerResp,  \* the response to the POST (history)
    dag_run_id,   \* local of handle / post
    init_state,   \* local `state` of handle / post
    qstart,       \* time the GET in flight was issued
    qid,          \* run identifier in the URL of the GET in flight
    qlog,         \* the state queries of the wait so far (history)
    outcome,      \* how the invocation ended
    ret,          \* return value of wait_for_completion
    response,     \* the JsonResponse of the view
    received_count, \* WebhookHandler.received_count of the test server
    wlog,         \* requests the test server has handled (history)
    outbound,     \* POSTs the notification test has sent to webhook targets
    nlog          \* notification tests performed (history)

\* the variables of the webhook test server and of the notification test
wvars == <<received_count, wlog>>
nvars == <<outbound, nlog>>

vars == <<site, pc, wait, timeout, now, start_time, posts, gets, sleeps,
          triggerResp, dag_run_id, init_state, qstart, qid, qlog, outcome,
          ret, response>>

\* detail is the error_detail put into the message "Airflow API error: ..."
NoJson == [success |-> FALSE, status |-> 0, dag_run_id |-> None,
           state |-> None, error |-> "none", detail |-> None]
JsonResponse(success, status, id, st, error) ==
    [success |-> success, status |-> status, dag_run_id |-> id,
     state |-> st, error |-> error, detail |-> None]

Init ==
    /\ site = "none"
    /\ pc = "idle"
    /\ wait = FALSE
    /\ timeout = 0
    /\ now = 0
    /\ start_time = 0
    /\ posts = 0
    /\ gets = 0
    /\ sleeps = 0
    /\ triggerResp = NoResp
    /\ dag_run_id = None
    /\ init_state = None
    /\ qstart = 0
    /\ qid = None
    /\ qlog = <<>>
    /\ outcome = "none"
    /\ ret = "none"
    /\ response = NoJson
    /\ received_count = 0
    /\ wlog = <<>>
    /\ outbound = 0
    /\ nlog = <<>>

(* ------------------------- the command line ---------------------------- *)
handle_twice(w, tmo) ==
    /\ pc = "idle"
    /\ site' = "cli"
    /\ wait' = w
    /\ timeout' = tmo
    /\ posts' = posts + 2
    /\ pc' = "trigger"
    /\ UNCHANGED <<now, start_time, gets, sleeps, triggerResp, dag_run_id,
                   init_state, qstart, qid, qlog, outcome, ret, response>>
    /\ UNCHANGED <<wvars, nvars>>

\* Command.handle up to requests.post in trigger_dag
handle(w, tmo) ==
    /\ pc = "idle"
    /\ site' = "cli"
    /\ wait' = w
    /\ timeout' = tmo
    /\ posts' = posts + 1
    /\ pc' = "trigger"
    /\ UNCHANGED <<now, start_time, gets, sleeps, triggerResp, dag_run_id,
                   init_state, qstart, qid, qlog, outcome, ret, response>>
    /\ UNCHANGED <<wvars, nvars>>

\* Command.handle after trigger_dag returned dag_run: what it does next
handle_next_nocheck(dag_run, w) ==
    IF dag_run.shape # "dict" /\ Truthy(dag_run) THEN "AttributeError"
    ELSE IF w THEN "wait"
    ELSE "return"

handle_next_always_wait(dag_run, w) ==
    IF ~Truthy(dag_run) THEN "failed"
    ELSE IF dag_run.shape # "dict" THEN "AttributeError"
    ELSE "wait"

handle_next(dag_run, w) ==
    IF ~Truthy(dag_run) THEN "failed"
    ELSE IF dag_run.shape # "dict" THEN "AttributeError"
    ELSE IF w THEN "wait"
    ELSE "return"

\* the POST returns: rest of trigger_dag, then handle up to the first
\* evaluation of the while condition of wait_for_completion
trigger_dag_return(resp, lat) ==
    /\ pc = "trigger"
    /\ site = "cli"
    /\ now' = now + lat
    /\ triggerResp' = resp
    /\ LET dag_run == trigger_dag(resp)
           next == handle_next(dag_run, wait)
       IN
       CASE next = "failed" ->
              /\ outcome' = "trigger_failed"
              /\ pc' = "done"
              /\ UNCHANGED <<dag_run_id, init_state, start_time>>
         [] next = "AttributeError" ->
              /\ outcome' = "AttributeError"
              /\ pc' = "done"
              /\ UNCHANGED <<dag_run_id, init_state, start_time>>
         [] next = "wait" ->
              /\ dag_run_id' = dag_run.dag_run_id
              /\ init_state' = dag_run.state
              /\ start_time' = now'
              /\ pc' = "loop"
              /\ outcome' = outcome
         [] next = "return" ->
              /\ dag_run_id' = dag_run.dag_run_id
              /\ init_state' = dag_run.state
              /\ pc' = "done"
              /\ outcome' = "triggered"
              /\ UNCHANGED start_time
    /\ UNCHANGED <<site, wait, timeout, posts, gets, sleeps, qstart, qid, qlog,
                   ret, response>>
    /\ UNCHANGED <<wvars, nvars>>

\* wait_for_completion: the while condition, then requests.get or the
\* timeout exit
wait_for_completion_loop ==
    /\ pc = "loop"
    /\ IF loop_condition(now, start_time, timeout)
       THEN /\ gets' = gets + 1
            /\ qstart' = now
            /\ qid' = api_url(dag_run_id)
            /\ pc' = "query"
            /\ UNCHANGED <<outcome, ret>>
       ELSE /\ outcome' = "timed_out"
            /\ ret' = "False"
            /\ pc' = "done"
            /\ UNCHANGED <<gets, qstart, qid>>
    /\ UNCHANGED <<site, wait, timeout, now, start_time, posts, sleeps,
                   triggerResp, dag_run_id, init_state, qlog, response>>
    /\ UNCHANGED <<wvars, nvars>>

\* the GET returns: rest of get_dag_run_state, then the loop body up to
\* time.sleep or a return
get_dag_run_state_return(resp, lat) ==
    /\ pc = "query"
    /\ now' = now + lat
    /\ qlog' = Append(qlog, [resp |-> resp, start |-> qstart, end |-> now',
                             id |-> qid])
    /\ LET state == get_dag_run_state(resp) IN
       IF state = "AttributeError"
       THEN /\ outcome' = "AttributeError"
            /\ pc' = "done"
            /\ ret' = ret
       ELSE LET b == loop_branch(state) IN
            IF b = "sleep"
            THEN /\ pc' = "sleep"
                 /\ UNCHANGED <<outcome, ret>>
            ELSE /\ outcome' = b
                 /\ ret' = IF b = "success" THEN "True" ELSE "False"
                 /\ pc' = "done"
    /\ UNCHANGED <<site, wait, timeout, start_time, posts, gets, sleeps,
                   triggerResp, dag_run_id, init_state, qstart, qid, response>>
    /\ UNCHANGED <<wvars, nvars>>

sleep_short ==
    /\ pc = "sleep"
    /\ now' = now + 1
    /\ sleeps' = sleeps + 1
    /\ pc' = "loop"
    /\ UNCHANGED <<site, wait, timeout, start_time, posts, gets, triggerResp,
                   dag_run_id, init_state, qstart, qid, qlog, outcome, ret,
                   response>>
    /\ UNCHANGED <<wvars, nvars>>

\* time.sleep(2) returns
sleep ==
    /\ pc = "sleep"
    /\ now' = now + PollInterval
    /\ sleeps' = sleeps + 1
    /\ pc' = "loop"
    /\ UNCHANGED <<site, wait, timeout, start_time, posts, gets, triggerResp,
                   dag_run_id, init_state, qstart, qid, qlog, outcome, ret,
                   response>>
    /\ UNCHANGED <<wvars, nvars>>

(* ------------------------- the interactive view ------------------------ *)
\* TriggerSyncView.post up to requests.post
post ==
    /\ pc = "idle"
    /\ site' = "view"
    /\ posts' = posts + 1
    /\ pc' = "trigger"
    /\ UNCHANGED <<wait, timeout, now, start_time, gets, sleeps, triggerResp,
                   dag_run_id, init_state, qstart, qid, qlog, outcome, ret,
                   response>>
    /\ UNCHANGED <<wvars, nvars>>

\* error_detail of the HTTPError handler: the value under `detail`, else
\* under `title`, else str(e) for a JSON object; response.text, or str(e)
\* when it is empty, when the body is no JSON object
error_detail(resp) ==
    IF resp.body.shape = "dict"
    THEN IF resp.body.detail # None THEN resp.body.detail
         ELSE IF resp.body.title # None THEN resp.body.title
         ELSE "str(e)"
    ELSE IF resp.body.text THEN "response.text" ELSE "str(e)"

\* the JsonResponse TriggerSyncView.post builds from the response to the POST
post_result(resp) ==
    IF resp.err = "ConnectionError"
    THEN JsonResponse(FALSE, 503, None, None, "connect")
    ELSE IF resp.err # "none"
    THEN JsonResponse(FALSE, 500, None, None, "request")
    ELSE IF raise_for_status(resp)
    THEN [JsonResponse(FALSE, resp.status, None, None, "api")
            EXCEPT !.detail = error_detail(resp)]
    ELSE IF resp.body.shape = "notjson"
    THEN JsonResponse(FALSE, 500, None, None, "request")
    ELSE IF resp.body.shape # "dict"
    THEN JsonResponse(FALSE, 500, None, None, "unexpected")
    ELSE JsonResponse(TRUE, 200, resp.body.dag_run_id, resp.body.state, "none")

\* the POST returns: rest of TriggerSyncView.post
post_return(resp, lat) ==
    /\ pc = "trigger"
    /\ site = "view"
    /\ now' = now + lat
    /\ triggerResp' = resp
    /\ response' = post_result(resp)
    /\ dag_run_id' = response'.dag_run_id
    /\ init_state' = response'.state
    /\ outcome' = IF response'.success THEN "triggered" ELSE "trigger_failed"
    /\ pc' = "done"
    /\ UNCHANGED <<site, wait, timeout, start_time, posts, gets, sleeps,
                   qstart, qid, qlog, ret>>
    /\ UNCHANGED <<wvars, nvars>>

(* ----------------------- what the caller receives ---------------------- *)
\* exit status of the management command: handle returns normally on every
\* path (self.error only prints, the code goes on after it), so the status is
\* non-zero only when an exception leaves handle
exit_code == IF outcome = "AttributeError" THEN 1 ELSE 0

(* --------------------------- specification ----------------------------- *)
Next ==
    \/ \E w \in BOOLEAN, tmo \in Timeouts : handle(w, tmo)
    \/ \E r \in TriggerResponses, l \in TriggerLatencies :
          trigger_dag_return(r, l)
    \/ wait_for_completion_loop
    \/ \E r \in StateResponses, l \in Latencies : get_dag_run_state_return(r, l)
    \/ sleep
    \/ post
    \/ \E r \in TriggerResponses, l \in TriggerLatencies : post_return(r, l)

all_vars == <<vars, wvars, nvars>>

Spec == Init /\ [][Next]_all_vars

(* ---------------------- the notification test ------------------------- *)
\* largest number of notification tests in one run
MaxTests == 3

\* the notifications of a project: their type and, for a webhook, the url
\* of configuration["extras"]
Notifications ==
    {[type |-> "webhook", url |-> u] :
        u \in {"https://example.com/webhook", "https://example.org/hook"}}
    \cup {[type |-> "email", url |-> None]}
\* status codes the webhook target answers with
TargetStatuses == {200, 404, 500}

notify_success_always(status) == TRUE

\* is the status of the target a success status?
notify_success(status) == status >= 200 /\ status < 300

test_result_any_type(n, status) ==
    [http |-> 200, success |-> notify_success(status),
     status_code |-> status, error |-> "none", posted_to |-> n.url]

\* the test of notification n, the target answering with `status`: the JSON
\* result, its HTTP status and the url the test POSTs to (None: no POST)
test_result(n, status) ==
    IF n.type # "webhook"
    THEN [http |-> 400, success |-> FALSE, status_code |-> 0,
          error |-> "Only webhook", posted_to |-> None]
    ELSE [http |-> 200, success |-> notify_success(status),
          status_code |-> status, error |-> "none", posted_to |-> n.url]

\* POST test_notification for notification n
test_notification(n, status) ==
    /\ Len(nlog) < MaxTests
    /\ LET res == test_result(n, status) IN
       /\ outbound' = IF res.posted_to # None THEN outbound + 1 ELSE outbound
       /\ nlog' = Append(nlog, [notification |-> n,
                                target_status |->
                                    IF n.type = "webhook" THEN status ELSE 0,
                                result |-> res,
                                outbound |-> outbound'])
    /\ UNCHANGED <<vars, wvars>>

NotifyNext ==
    \E n \in Notifications, st \in TargetStatuses : test_notification(n, st)

SpecNotify == Init /\ [][NotifyNext]_all_vars

(* ---------------------- the webhook test server ------------------------ *)
\* largest number of requests the test server handles in one run
MaxRequests == 3

\* paths of the requests
GetPaths == {"/health", "/"}
PostPaths == {"/webhook", "/health"}
\* request bodies of a POST: "object" is a JSON object format_cve_alert can
\* print, "array" valid JSON on which payload.get raises, "invalid" no JSON
\* (json.JSONDecodeError), "not utf-8" bytes body.decode cannot decode,
\* "bad length" a request whose Content-Length is not a number: int() raises
\* outside the try and the request gets no answer (status 0)
PostBodies == {"object", "array", "invalid", "not utf-8", "bad length"}
ValidJson == {"object", "array"}

\* do_GET: the status answered and the count shown
do_GET_result(path, count) == [status |-> 200, received_count |-> count]

do_POST_result_count_first(path, body, save_ok, count) ==
    IF path # "/webhook"
    THEN [status |-> 404, count |-> count, received_count |-> 0]
    ELSE IF body = "bad length"
    THEN [status |-> 0, count |-> count, received_count |-> 0]
    ELSE IF body = "not utf-8"
    THEN [status |-> 500, count |-> count + 1, received_count |-> 0]
    ELSE IF body = "invalid"
    THEN [status |-> 400, count |-> count + 1, received_count |-> 0]
    ELSE IF body = "array" \/ ~save_ok
    THEN [status |-> 500, count |-> count + 1, received_count |-> 0]
    ELSE [status |-> 200, count |-> count + 1, received_count |-> count + 1]

do_POST_result_count_last(path, body, save_ok, count) ==
    IF path # "/webhook"
    THEN [status |-> 404, count |-> count, received_count |-> 0]
    ELSE IF body = "bad length"
    THEN [status |-> 0, count |-> count, received_count |-> 0]
    ELSE IF body = "not utf-8"
    THEN [status |-> 500, count |-> count, received_count |-> 0]
    ELSE IF body = "invalid"
    THEN [status |-> 400, count |-> count, received_count |-> 0]
    ELSE IF body = "array" \/ ~save_ok
    THEN [status |-> 500, count |-> count, received_count |-> 0]
    ELSE [status |-> 200, count |-> count + 1, received_count |-> count + 1]

\* do_POST: the status answered, the new value of received_count and the
\* received_count of a 200 answer.  save_ok: writing the payload file works
do_POST_result(path, body, save_ok, count) ==
    IF path # "/webhook"
    THEN [status |-> 404, count |-> count, received_count |-> 0]
    ELSE IF body = "bad length"
    THEN [status |-> 0, count |-> count, received_count |-> 0]
    ELSE IF body = "not utf-8"
    THEN [status |-> 500, count |-> count, received_count |-> 0]
    ELSE IF body = "invalid"
    THEN [status |-> 400, count |-> count, received_count |-> 0]
    ELSE IF body = "array" \/ ~save_ok
    THEN [status |-> 500, count |-> count + 1, received_count |-> 0]
    ELSE [status |-> 200, count |-> count + 1, received_count |-> count + 1]

\* WebhookHandler.do_GET
do_GET(path) ==
    /\ Len(wlog) < MaxRequests
    /\ LET res == do_GET_result(path, received_count) IN
       wlog' = Append(wlog, [method |-> "GET", path |-> path, body |-> "none",
                             save_ok |-> TRUE, status |-> res.status,
                             received_count |-> res.received_count])
    /\ UNCHANGED received_count
    /\ UNCHANGED <<vars, nvars>>

\* WebhookHandler.do_POST
do_POST(path, body, save_ok) ==
    /\ Len(wlog) < MaxRequests
    /\ LET res == do_POST_result(path, body, save_ok, received_count) IN
       /\ received_count' = res.count
       /\ wlog' = Append(wlog, [method |-> "POST", path |-> path,
                                body |-> body, save_ok |-> save_ok,
                                status |-> res.status,
                                received_count |-> res.received_count])
    /\ UNCHANGED <<vars, nvars>>

ServerNext ==
    \/ \E p \in GetPaths : do_GET(p)
    \/ \E p \in PostPaths, b \in PostBodies, ok \in BOOLEAN : do_POST(p, b, ok)

SpecServer == Init /\ [][ServerNext]_all_vars

(* ------------------------------ claims --------------------------------- *)
\* what a response says, read off the response itself
Answered(r) ==
    r.err = "none" /\ r.status \in OkStatuses /\ r.body.shape = "dict"
AnsweredState(r, st) == Answered(r) /\ r.body.state = st
\* connection failure, non-2xx status or undecodable body
Failed(r) ==
    r.err # "none" \/ r.status \notin OkStatuses \/ r.body.shape = "notjson"
WellFormed(r) ==
    Answered(r) /\ r.body.dag_run_id # None /\ r.body.state # None
Triggered == pc \notin {"idle", "trigger"}
LastQuery == qlog[Len(qlog)]
Ceil(a, b) == (a + b - 1) \div b
RECURSIVE SumLatency(_)
SumLatency(log) ==
    IF log = <<>> THEN 0
    ELSE (log[Len(log)].end - log[Len(log)].start)
         + SumLatency(SubSeq(log, 1, Len(log) - 1))

\* C1: the wait reports success only when its most recent state query was
\* answered `success`, and run failed only when it was answered `failed`;
\* the state of the trigger response never decides the outcome.
C1_OutcomeObserved ==
    /\ (outcome = "success" \/ ret = "True") =>
          /\ qlog # <<>>
          /\ AnsweredState(LastQuery.resp, "success")
          /\ outcome = "success" /\ ret = "True"
    /\ outcome = "run_failed" =>
          /\ qlog # <<>>
          /\ AnsweredState(LastQuery.resp, "failed")
          /\ ret = "False"
    /\ (pc = "loop" /\ qlog = <<>>) => outcome = "none"

C1_Witness ==
    /\ outcome = "success"
    /\ init_state = "queued"
    /\ Len(qlog) >= 2
    /\ AnsweredState(qlog[1].resp, "running")

\* C2: when the start-run request fails (connection failure, non-2xx
\* status, undecodable body) the invocation ends at once with an error and
\* issues no state query, no sleep, also when --wait was given.
C2_FailedTriggerNoPoll ==
    (Triggered /\ Failed(triggerResp)) =>
        /\ pc = "done"
        /\ outcome = "trigger_failed"
        /\ gets = 0 /\ sleeps = 0 /\ qlog = <<>>
        /\ ret = "none"
        /\ site = "view" => ~response.success

C2_Witness ==
    /\ site = "cli" /\ wait /\ timeout > 0
    /\ pc = "done"
    /\ triggerResp.err = "ConnectionError"
    /\ gets = 0

\* C3: without waiting (cli without --wait, the view always) a 2xx answer
\* with a well-formed body ends the invocation after the one POST, with no
\* state query, reporting the body's state and dag_run_id.
C3_FireAndForget ==
    (Triggered /\ WellFormed(triggerResp) /\ (site = "view" \/ ~wait)) =>
        /\ pc = "done"
        /\ outcome = "triggered"
        /\ posts = 1 /\ gets = 0
        /\ init_state = triggerResp.body.state
        /\ dag_run_id = triggerResp.body.dag_run_id
        /\ site = "view" =>
              /\ response.success
              /\ response.state = triggerResp.body.state
              /\ response.dag_run_id = triggerResp.body.dag_run_id

C3_Witness ==
    /\ site = "cli" /\ ~wait
    /\ pc = "done"
    /\ WellFormed(triggerResp)
    /\ init_state = "queued"
    /\ dag_run_id \in RunIds

\* C4: a failed state query ends the wait at once with an error: it is the
\* last query of the invocation, whatever is left of the deadline.
C4_QueryFailureFatal ==
    \A i \in 1 .. Len(qlog) :
        Failed(qlog[i].resp) =>
            /\ i = Len(qlog)
            /\ gets = i
            /\ sleeps = i - 1
            /\ pc = "done"
            /\ outcome = "query_error"
            /\ ret = "False"

C4_Witness ==
    /\ outcome = "query_error"
    /\ Len(qlog) = 2
    /\ LastQuery.resp.status = 500
    /\ LastQuery.end - start_time + PollInterval < timeout

\* C5: a state query answered `failed` ends the wait at once with the
\* run-failed outcome: no sleep and no state query follows it.
C5_FailedIsFinal ==
    \A i \in 1 .. Len(qlog) :
        AnsweredState(qlog[i].resp, "failed") =>
            /\ i = Len(qlog)
            /\ gets = i
            /\ sleeps = i - 1
            /\ pc = "done"
            /\ outcome = "run_failed"
            /\ now = qlog[i].end

C5_Witness ==
    /\ outcome = "run_failed"
    /\ Len(qlog) = 3
    /\ LastQuery.end - start_time + PollInterval < timeout

\* C6: every state query starts before the deadline (start - t0 < timeout);
\* with a deadline of 0 or less the wait times out without any query.
C6_DeadlineBeforeQuery ==
    /\ pc = "query" => qstart - start_time < timeout
    /\ \A i \in 1 .. Len(qlog) : qlog[i].start - start_time < timeout
    /\ (timeout <= 0 /\ ret # "none") =>
          gets = 0 /\ outcome = "timed_out"
    /\ (timeout <= 0 /\ pc = "loop") => gets = 0

C6_Witness ==
    /\ timeout = 0
    /\ wait
    /\ outcome = "timed_out"
    /\ gets = 0
    /\ now = start_time

\* C7 (as stated): under non-terminal answers only, the wait times out after
\* exactly ceil(timeout / 2) state queries, whatever the query latency.
C7_QueriesEqualCeil ==
    (outcome = "timed_out" /\ timeout > 0) =>
        gets = Ceil(timeout, 2)

\* C7 (amended): under non-terminal answers only, the wait times out after at
\* least one and at most ceil(timeout / 2) state queries, and after exactly
\* ceil(timeout / 2) of them when the queries took no time.
C7_QueriesAtMostCeil ==
    (outcome = "timed_out" /\ timeout > 0) =>
        /\ ret = "False"
        /\ \A i \in 1 .. Len(qlog) :
              \/ AnsweredState(qlog[i].resp, "queued")
              \/ AnsweredState(qlog[i].resp, "running")
        /\ gets = Len(qlog)
        /\ gets >= 1
        /\ gets <= Ceil(timeout, 2)
        /\ SumLatency(qlog) = 0 => gets = Ceil(timeout, 2)

C7_Witness ==
    /\ outcome = "timed_out"
    /\ timeout = 10
    /\ SumLatency(qlog) = 0
    /\ gets = 5

\* C8: an invocation issues exactly one start-run POST, whatever the answer
\* to it and whatever happens in the wait.
C8_OnePost ==
    /\ posts <= 1
    /\ pc # "idle" => posts = 1

C8_Witness ==
    /\ posts = 1
    /\ Failed(triggerResp)
    /\ wait
    /\ pc = "done"

\* C9: a 2xx start-run response whose JSON object has no dag_run_id is
\* reported as a failed trigger and starts no polling.
C9_MissingIdIsError ==
    (Triggered /\ Answered(triggerResp)
               /\ triggerResp.body.dag_run_id = None) =>
        /\ pc = "done"
        /\ outcome = "trigger_failed"
        /\ gets = 0
        /\ site = "view" => ~response.success

\* C10: a state query answered 2xx with a JSON object without `state` does
\* not end the wait: the loop sleeps and queries again.
C10_UnknownIsNonTerminal ==
    (qlog # <<>> /\ AnsweredState(LastQuery.resp, None)) =>
        \/ pc \in {"sleep", "loop"}
        \/ outcome = "timed_out"

\* C11: the command ends with a non-zero exit status whenever the outcome is
\* not success: zero only for success, or for a successful trigger without
\* --wait.
C11_NonZeroExitOnFailure ==
    (site = "cli" /\ pc = "done") =>
        (exit_code = 0 <=> outcome \in {"success", "triggered"})

\* C12 (as stated): timeout 10, answers `running` then `success`, queries
\* without latency: the queries start 2 s and 4 s after the wait started and
\* the wait ends with success 4 s after it started.
C12_QueriesAtTwoAndFour ==
    (timeout = 10 /\ Len(qlog) = 2 /\ SumLatency(qlog) = 0
       /\ AnsweredState(qlog[1].resp, "running")
       /\ AnsweredState(qlog[2].resp, "success")) =>
        /\ qlog[1].start - start_time = 2
        /\ qlog[2].start - start_time = 4
        /\ outcome = "success"
        /\ now - start_time = 4

\* C12 (amended): timeout 10, answers `running` then `success`: the first
\* query starts when the wait starts, the second 2 s after the first
\* returned, and the wait ends with success after exactly two queries, 2 s
\* plus the latency of the two queries after it started.
C12_QueriesAtZeroAndTwo ==
    (timeout = 10 /\ Len(qlog) = 2
       /\ AnsweredState(qlog[1].resp, "running")
       /\ AnsweredState(qlog[2].resp, "success")) =>
        /\ qlog[1].start = start_time
        /\ qlog[2].start = qlog[1].end + 2
        /\ pc = "done"
        /\ outcome = "success" /\ ret = "True"
        /\ gets = 2 /\ sleeps = 1
        /\ now - start_time = 2 + SumLatency(qlog)

C12_Witness ==
    /\ timeout = 10
    /\ Len(qlog) = 2
    /\ AnsweredState(qlog[1].resp, "running")
    /\ AnsweredState(qlog[2].resp, "success")
    /\ SumLatency(qlog) = 0
    /\ now - start_time = 2

\* the states answered by the queries logged so far
RECURSIVE AnsweredStates(_)
AnsweredStates(log) ==
    IF log = <<>> THEN <<>>
    ELSE Append(AnsweredStates(SubSeq(log, 1, Len(log) - 1)),
                IF Answered(log[Len(log)].resp)
                THEN log[Len(log)].resp.body.state ELSE "no state")
QRRS == <<"queued", "running", "running", "success">>

\* C13: under the answers queued, running, running, success and a deadline
\* above 6 s plus the query latencies, the wait ends with success after
\* exactly 4 queries and 3 sleeps, 6 s plus the query latencies after it
\* started; before the fourth answer it neither ends nor times out.
C13_FourQueriesThreeSleeps ==
    /\ AnsweredStates(qlog) = QRRS =>
          /\ pc = "done"
          /\ outcome = "success" /\ ret = "True"
          /\ gets = 4 /\ sleeps = 3
          /\ now - start_time = 6 + SumLatency(qlog)
    /\ (qlog # <<>> /\ Len(qlog) < 4
          /\ AnsweredStates(qlog) = SubSeq(QRRS, 1, Len(qlog))
          /\ timeout > 6 + SumLatency(qlog)) =>
          /\ pc \in {"sleep", "loop", "query"}
          /\ ret = "none"
          /\ gets \in {Len(qlog), Len(qlog) + 1}

C13_Witness ==
    /\ AnsweredStates(qlog) = QRRS
    /\ timeout > 6 + SumLatency(qlog)
    /\ SumLatency(qlog) > 0
    /\ outcome = "success"

\* C14 (as stated): the wait returns at most one transport timeout (10 s)
\* after the deadline.
C14_OverrunAtMostTimeout ==
    (ret # "none" /\ timeout >= 0) =>
        now - (start_time + timeout) <= 10

\* C14 (amended): for a deadline of 0 or more the wait returns less than one
\* transport timeout plus one poll interval (12 s) after the deadline, and
\* less than one transport timeout after it when it returns on an answer.
C14_OverrunBelowTimeoutPlusSleep ==
    (ret # "none" /\ timeout >= 0) =>
        /\ now - (start_time + timeout) < 10 + 2
        /\ outcome # "timed_out" => now - (start_time + timeout) < 10

C14_Witness ==
    /\ outcome = "timed_out"
    /\ timeout > 0
    /\ now - (start_time + timeout) = 11

\* a state query answered with status 500
R500 == Resp("none", 500, NotJson)

\* C15: a state query answered 500 ends the wait with an error that keeps
\* the status: what the loop gets and returns for a 500 it gets and returns
\* for no other answer.
C15_StatusPreserved ==
    (pc = "done" /\ qlog # <<>>
       /\ get_dag_run_state(LastQuery.resp) = get_dag_run_state(R500)) =>
        /\ LastQuery.resp.err = "none"
        /\ LastQuery.resp.status = 500
        /\ outcome = "query_error"

\* C16: the three unsuccessful endings of the wait return pairwise different
\* values: the value returned for a run reported `failed` (False, line 117)
\* is returned for no other ending.
C16_EndingsDistinct ==
    ret = "False" => outcome = "run_failed"

\* C17: every state query carries the run identifier of the start-run
\* response of its invocation (None when the response has none), the same in
\* every query.
C17_SameRunId ==
    /\ \A i \in 1 .. Len(qlog) :
          /\ qlog[i].id = triggerResp.body.dag_run_id
          /\ qlog[i].id = dag_run_id
    /\ pc = "query" => qid = triggerResp.body.dag_run_id
    /\ pc \in {"loop", "query", "sleep"} =>
          dag_run_id = triggerResp.body.dag_run_id

C17_Witness ==
    /\ Len(qlog) = 3
    /\ triggerResp.body.dag_run_id = "manual__2"
    /\ \A i \in 1 .. 3 : qlog[i].id = "manual__2"

\* C18: no failure of the POST or of a GET (connection failure, timeout,
\* error status, undecodable or wrongly shaped body) leaves the invocation as
\* an exception.
C18_NoRawException ==
    Triggered => outcome # "AttributeError"

\* C19: a failed start-run request maps one-to-one to its error kind: the
\* result of a connection failure is the result of no other failure.
C19_FailureKindsDistinct ==
    /\ (site = "cli" /\ Triggered /\ Failed(triggerResp)
          /\ trigger_dag(triggerResp)
               = trigger_dag(Resp("ConnectionError", 0, NoBody))) =>
          triggerResp.err = "ConnectionError"
    /\ (site = "view" /\ Triggered /\ Failed(triggerResp)
          /\ response = post_result(Resp("ConnectionError", 0, NoBody))) =>
          triggerResp.err = "ConnectionError"

\* C20: for a non-2xx start-run response the view answers with the status
\* of the service and, as detail, the value under `detail`, else under
\* `title`, of a JSON object that has one, and the raw response text in every
\* other case (nothing is asked of the detail when that text is empty).
C20_DetailOrRawText ==
    (site = "view" /\ pc = "done" /\ triggerResp.err = "none"
       /\ triggerResp.status \notin OkStatuses) =>
        /\ ~response.success
        /\ response.status = triggerResp.status
        /\ LET body == triggerResp.body IN
           IF body.shape = "dict" /\ body.detail # None
           THEN response.detail = body.detail
           ELSE IF body.shape = "dict" /\ body.title # None
           THEN response.detail = body.title
           ELSE body.text => response.detail = "response.text"

\* C21: the test of a notification that is no webhook is rejected with
\* status 400, success false and the 'Only webhook' error, without any POST;
\* the test of a webhook sends exactly one POST, to the configured url, and
\* answers with the status code of the target and success exactly when that
\* is a success status.
C21_OnlyWebhookTested ==
    \A i \in 1 .. Len(nlog) :
        LET e == nlog[i]
            before == IF i = 1 THEN 0 ELSE nlog[i - 1].outbound
        IN  IF e.notification.type = "webhook"
            THEN /\ e.outbound = before + 1
                 /\ e.result.posted_to = e.notification.url
                 /\ e.result.http = 200
                 /\ e.result.status_code = e.target_status
                 /\ e.result.success <=> e.target_status \in {200}
            ELSE /\ e.outbound = before
                 /\ e.result.posted_to = None
                 /\ e.result.http = 400
                 /\ ~e.result.success
                 /\ e.result.error = "Only webhook"

C21_Witness ==
    /\ Len(nlog) = 3
    /\ nlog[1].notification.type = "email"
    /\ nlog[2].notification.type = "webhook" /\ nlog[2].target_status = 200
    /\ nlog[2].result.success
    /\ nlog[3].notification.type = "webhook" /\ nlog[3].target_status = 500
    /\ ~nlog[3].result.success
    /\ outbound = 2

\* C22: a wait that has started ends by returning one of success, run
\* failed, query error or timed out, after at most ceil(timeout / 2) state
\* queries.
C22_WaitReturnsOneOfFour ==
    (pc = "done" /\ (qlog # <<>> \/ ret # "none")) =>
        /\ ret \in {"True", "False"}
        /\ outcome \in {"success", "run_failed", "query_error", "timed_out"}
        /\ ret = "True" <=> outcome = "success"
        /\ gets <= (IF timeout > 0 THEN Ceil(timeout, 2) ELSE 0)

\* C23: the state queries of an invocation follow one another: at most one
\* GET is in flight, it is issued after the previous one returned, and at
\* least 2 s lie between the return of a query and the start of the next.
C23_SequentialPaced ==
    /\ gets = Len(qlog) + (IF pc = "query" THEN 1 ELSE 0)
    /\ \A i \in 1 .. Len(qlog) : qlog[i].start <= qlog[i].end
    /\ \A i \in 1 .. Len(qlog) - 1 : qlog[i + 1].start >= qlog[i].end + 2
    /\ (pc = "query" /\ qlog # <<>>) => qstart >= LastQuery.end + 2
    /\ sleeps \in {Len(qlog) - 1, Len(qlog)} \/ qlog = <<>>

C23_Witness ==
    /\ pc = "query"
    /\ Len(qlog) = 2
    /\ qlog[1].end > qlog[1].start
    /\ qstart = LastQuery.end + 2

\* requests of the log that are POSTs to /webhook
IsWebhookPost(e) == e.method = "POST" /\ e.path = "/webhook"
RECURSIVE CountParsed(_)
\* number of POSTs to /webhook of the log whose body is valid JSON
CountParsed(log) ==
    IF log = <<>> THEN 0
    ELSE CountParsed(SubSeq(log, 1, Len(log) - 1))
         + (IF IsWebhookPost(log[Len(log)]) /\ log[Len(log)].body \in ValidJson
            THEN 1 ELSE 0)
RECURSIVE CountOk(_)
\* number of POSTs to /webhook of the log answered 200
CountOk(log) ==
    IF log = <<>> THEN 0
    ELSE CountOk(SubSeq(log, 1, Len(log) - 1))
         + (IF IsWebhookPost(log[Len(log)]) /\ log[Len(log)].status = 200
            THEN 1 ELSE 0)

\* C24: received_count changes only in a POST to /webhook with a valid JSON
\* body, and then by exactly one; a GET, a POST to another path (404) and a
\* POST of invalid JSON (400) leave it unchanged; it never decreases.
C24_CountFrame ==
    [][ /\ received_count' >= received_count
        /\ Len(wlog') = Len(wlog) + 1 =>
             LET e == wlog'[Len(wlog')] IN
             IF IsWebhookPost(e) /\ e.body \in ValidJson
             THEN received_count' = received_count + 1
             ELSE /\ received_count' = received_count
                  /\ e.method = "GET" => e.status = 200
                  /\ (e.method = "POST" /\ e.path # "/webhook") =>
                        e.status = 404
                  /\ (IsWebhookPost(e) /\ e.body = "invalid") =>
                        e.status = 400
      ]_all_vars

C24_Witness ==
    /\ Len(wlog) = 3
    /\ wlog[1].method = "GET"
    /\ IsWebhookPost(wlog[2]) /\ wlog[2].body = "invalid"
    /\ IsWebhookPost(wlog[3]) /\ wlog[3].body = "object"
    /\ received_count = 1

\* C25 (as stated): received_count is the number of POSTs to /webhook that
\* were answered 200, and each 200 answer shows the number of 200 answers
\* given so far.
C25_CountIsOkAnswers ==
    /\ received_count = CountOk(wlog)
    /\ \A i \in 1 .. Len(wlog) :
          (IsWebhookPost(wlog[i]) /\ wlog[i].status = 200) =>
              wlog[i].received_count = CountOk(SubSeq(wlog, 1, i))

\* C25 (amended): received_count is the number of POSTs to /webhook whose
\* body was parsed as JSON, answered 200 or 500; a request answered 400 or
\* 404 is not counted; each 200 answer shows the number of parsed webhooks
\* so far, which is at least the number of 200 answers.
C25_CountIsParsedWebhooks ==
    /\ received_count = CountParsed(wlog)
    /\ received_count >= CountOk(wlog)
    /\ \A i \in 1 .. Len(wlog) :
          /\ (IsWebhookPost(wlog[i]) /\ wlog[i].status = 200) =>
                wlog[i].received_count = CountParsed(SubSeq(wlog, 1, i))
          /\ wlog[i].status \in {400, 404} =>
                CountParsed(SubSeq(wlog, 1, i))
                  = CountParsed(SubSeq(wlog, 1, i - 1))
          /\ (IsWebhookPost(wlog[i]) /\ wlog[i].body \in ValidJson) =>
                wlog[i].status \in {200, 500}

C25_Witness ==
    /\ Len(wlog) = 3
    /\ IsWebhookPost(wlog[1]) /\ wlog[1].body = "object" /\ ~wlog[1].save_ok
    /\ wlog[1].status = 500
    /\ wlog[2].status = 400
    /\ wlog[3].status = 200 /\ wlog[3].received_count = 2
    /\ received_count = 2

====
